---------------------------- MODULE Spec2Model ----------------------------
(***************************************************************************)
(* FoodNearBy-MCP: location resolution and multi-provider POI aggregation. *)
(*                                                                         *)
(* Six state machines share this module; the first two are described      *)
(* here, SpecClassify (location strings typed character by character),     *)
(* SpecFilter (filterByDistance and parsePriceRange called on their own),  *)
(* SpecDistance (AmapLocationService.calculateDistance) and SpecChain      *)
(* (the filters called one after another) in their sections.               *)
(*   SpecDedup  MapPoiService.deduplicateAndSort, run one reduce callback  *)
(*              at a time over a list of Restaurant objects, then sorted.  *)
(*   Spec       one search_map_poi request: handleSearchMapPoi ->          *)
(*              MapPoiService.searchFood -> provider calls -> response.    *)
(*                                                                         *)
(* Units: coordinates are integers in 1e-4 degree, ratings in tenths of a  *)
(* star, distances in metres.  Strings that the code inspects character by *)
(* character (the location) are sequences of one-character strings.        *)
(***************************************************************************)
EXTENDS Integers, Sequences, FiniteSets, TLC

VARIABLES
    \* ---- deduplicateAndSort -------------------------------------------
    results,     \* the list handed to deduplicateAndSort, as it was on entry
    heap,        \* the Restaurant objects of that list, by position (mutable)
    acc,         \* reduce accumulator: positions of the objects kept so far
    idx,         \* position of the next element the reduce callback visits
    dpc,         \* "idle" | "collect" | "reduce" | "sort" | "done"
    output,      \* the list deduplicateAndSort returns
    \* ---- one search_map_poi request -----------------------------------
    pc,          \* position in handleSearchMapPoi / searchFood
    location,    \* args.location
    platforms,   \* platforms handed to searchFood
    baiduKey,    \* process.env.BAIDU_MAP_API_KEY is set
    amapKey,     \* process.env.AMAP_API_KEY is set
    strategy,    \* result of determineSearchStrategy
    calls,       \* provider network calls issued so far, in order
    out,         \* outcome of each call site: "none" | "fail" | "empty" | "ok"
    got,         \* records each call site contributed, after normalisation
    regionResults, \* what MapPoiService.searchFoodInRegion returned
    fan,         \* the local `results` array a fan-out pushes into
    coords,      \* what LocationService.getCoordinates returned
    ret,         \* what searchFood returned
    response,    \* kind of text the tool call answered with
    hung,        \* a provider call is pending and will never be answered
    \* ---- filters and price parsing, called on their own ----------------
    restaurants, \* the list handed to filterByDistance
    maxDistance, \* its maxDistance argument, in metres
    filtered,    \* the list it returned
    price,       \* the price handed to parsePriceRange
    bucket,      \* what parsePriceRange returned, per implementation
    fpc,         \* "idle" | "collect" | "filtered" | "filtering"
    criteria,    \* the filter arguments of a chain of filter calls
    applied,     \* the filters of the chain called so far, in order
    estimates,   \* planar and haversine estimate inside calculateDistance
    blended      \* what AmapLocationService.calculateDistance returned

dvars == <<results, heap, acc, idx, dpc, output>>
svars == <<pc, location, platforms, baiduKey, amapKey, strategy, calls, out, got,
           regionResults, fan, coords, ret, response, hung>>
fvars == <<restaurants, maxDistance, filtered, price, bucket, fpc,
           criteria, applied, estimates, blended>>
vars == <<results, heap, acc, idx, dpc, output,
          pc, location, platforms, baiduKey, amapKey, strategy, calls, out, got,
          regionResults, fan, coords, ret, response, hung,
          restaurants, maxDistance, filtered, price, bucket, fpc,
          criteria, applied, estimates, blended>>

---------------------------------------------------------------------------
(* Bounds of the model *)

\* longest list handed to deduplicateAndSort in SpecDedup
MaxLen == 3

\* longest record list one provider call answers with in Spec
MaxResp == 2

\* longest location typed character by character in SpecClassify
MaxStr == 4

\* longest list handed to a filter in SpecFilter
MaxFilterLen == 3

\* longest list handed to a chain of filters in SpecChain
MaxChainLen == 2

\* most filter calls of one chain in SpecChain
MaxApplied == 3

\* largest price handed to parsePriceRange in SpecFilter, in tenths of a yuan
MaxPrice == 1010

\* smallest and largest distance estimate inside calculateDistance in
\* SpecDistance, in metres
MinEstimate == 990

MaxEstimate == 1010

(* Program constants *)

\* 0.001 degree, in 1e-4 degree
DedupTolerance == 10

\* parsePriceRange: below 30 yuan is cheap, above 100 yuan is expensive
\* (in tenths of a yuan)
CheapBelow == 300

ExpensiveAbove == 1000

\* AmapLocationService.calculateDistance: above 1000 m the planar estimate is
\* averaged with the haversine one (in half metres)
BlendAbove == 2000

---------------------------------------------------------------------------
(* Restaurant records *)

Names == {"n1", "n2"}

\* (0,0) ~ (6,0) ~ (12,0) but (0,0) is not within tolerance of (12,0);
\* (0,12) differs from (0,0) in longitude only
Points == { [lat |-> 0, lng |-> 0], [lat |-> 6, lng |-> 0],
            [lat |-> 12, lng |-> 0], [lat |-> 0, lng |-> 12] }

Ratings == {35, 42}

ProviderTags == {"baidu_map", "amap"}

Restaurant(i, n, p, r, d, pl) ==
    [id |-> i, name |-> n, location |-> p, rating |-> r, distance |-> d,
     platforms |-> pl]

Abs(x) == IF x < 0 THEN -x ELSE x

---------------------------------------------------------------------------
(* MapPoiService.deduplicateAndSort *)

\* the predicate of acc.find(...)
SamePlace(item, current) ==
    /\ item.name = current.name
    /\ Abs(item.location.lat - current.location.lat) < DedupTolerance
    /\ Abs(item.location.lng - current.location.lng) < DedupTolerance

\* acc.find: position in acc of the first kept object matching current, 0 if none
FindExisting(h, a, current) ==
    IF \E k \in 1..Len(a) : SamePlace(h[a[k]], current)
    THEN CHOOSE k \in 1..Len(a) :
            /\ SamePlace(h[a[k]], current)
            /\ \A j \in 1..(k-1) : ~SamePlace(h[a[j]], current)
    ELSE 0

\* a variant of the test below that also replaces on equal ratings
BetterSource_GE(current, existing) == current.rating >= existing.rating

\* `current.rating > existing.rating`
BetterSource(current, existing) == current.rating > existing.rating

\* a variant of the else-branch below that copies the rating alone
MergeInto_RatingOnly(existing, current) ==
    LET merged == [existing EXCEPT !.platforms = existing.platforms \cup current.platforms]
    IN  IF BetterSource(current, merged)
        THEN [merged EXCEPT !.rating = current.rating]
        ELSE merged

\* the else-branch of the reduce callback, as the object `existing` is left:
\* platforms merged first, then Object.assign(existing, current) copies every
\* own property of current onto existing, platforms included
MergeInto(existing, current) ==
    LET merged == [existing EXCEPT !.platforms = existing.platforms \cup current.platforms]
    IN  IF BetterSource(current, merged) THEN current ELSE merged

\* one call of the reduce callback on element i: <<heap', acc'>>
ReduceCallback(h, a, i) ==
    LET k == FindExisting(h, a, h[i])
    IN  IF k = 0
        THEN <<h, Append(a, i)>>
        ELSE <<[h EXCEPT ![a[k]] = MergeInto(h[a[k]], h[i])], a>>

\* a variant of the comparator below that orders by rating only
Compare_RatingOnly(x, y) == y.rating - x.rating

\* the comparator of uniqueResults.sort: negative when x sorts before y
Compare(x, y) ==
    IF y.rating # x.rating THEN y.rating - x.rating
    ELSE x.distance - y.distance

\* Array.prototype.sort is stable: insert each element after the last one
\* that does not sort after it
RECURSIVE InsertSorted(_, _, _)
InsertSorted(h, s, e) ==
    IF s = <<>> THEN <<e>>
    ELSE IF Compare(h[e], h[Head(s)]) < 0 THEN <<e>> \o s
         ELSE <<Head(s)>> \o InsertSorted(h, Tail(s), e)

RECURSIVE SortAcc(_, _, _)
SortAcc(h, a, done) ==
    IF a = <<>> THEN done
    ELSE SortAcc(h, Tail(a), InsertSorted(h, done, Head(a)))

RECURSIVE ReduceFrom(_, _, _)
ReduceFrom(h, a, i) ==
    IF i > Len(h) THEN <<h, a>>
    ELSE LET st == ReduceCallback(h, a, i) IN ReduceFrom(st[1], st[2], i + 1)

\* the whole function, as a value
deduplicateAndSort(list) ==
    LET st == ReduceFrom(list, <<>>, 1)
        sorted == SortAcc(st[1], st[2], <<>>)
    IN  [k \in 1..Len(sorted) |-> st[1][sorted[k]]]

---------------------------------------------------------------------------
(* SpecDedup: deduplicateAndSort step by step *)

\* the records a provider list can hold; the id stands for every other
\* non-provider field of the record (address, phone, ...): it differs between
\* any two records of the input
InputRecords(i) ==
    { Restaurant(i, n, p, r, 0, {t}) :
        n \in Names, p \in Points, r \in Ratings, t \in ProviderTags }

\* no chain of filters is running and calculateDistance has not been called
IdleChain ==
    /\ criteria = [cuisine_type |-> <<>>, price_range |-> <<>>, max_distance |-> 0]
    /\ applied = <<>>
    /\ estimates = [planar |-> 0, haversine |-> 0]
    /\ blended = -1

\* no filter and no price parser has been called
IdleFilter ==
    /\ restaurants = <<>> /\ maxDistance = 0 /\ filtered = <<>>
    /\ price = [has |-> FALSE, numeric |-> FALSE, tenths |-> 0]
    /\ bucket = [service |-> <<>>, lib |-> <<>>]
    /\ fpc = "idle"
    /\ IdleChain

IdleSearch ==
    /\ pc = "idle" /\ location = <<>> /\ platforms = {} /\ baiduKey = FALSE
    /\ amapKey = FALSE /\ strategy = "none" /\ calls = <<>>
    /\ out = <<>> /\ got = <<>> /\ regionResults = <<>> /\ fan = <<>>
    /\ coords = [kind |-> "none", lat |-> 0, lng |-> 0]
    /\ ret = <<>> /\ response = "none" /\ hung = FALSE

DedupInit ==
    /\ results = <<>>
    /\ heap = <<>>
    /\ acc = <<>>
    /\ idx = 1
    /\ dpc = "collect"
    /\ output = <<>>
    /\ IdleSearch
    /\ IdleFilter

\* results.push(...providerResults): the caller fills the list
PushResult ==
    /\ dpc = "collect"
    /\ Len(results) < MaxLen
    /\ \E r \in InputRecords(Len(results) + 1) :
          /\ results' = Append(results, r)
          /\ heap' = Append(heap, r)
    /\ UNCHANGED <<acc, idx, dpc, output>>
    /\ UNCHANGED <<svars, fvars>>

\* this.deduplicateAndSort(results) is entered
CallDedup ==
    /\ dpc = "collect"
    /\ dpc' = "reduce"
    /\ UNCHANGED <<results, heap, acc, idx, output>>
    /\ UNCHANGED <<svars, fvars>>

\* results.reduce callback, one element
ReduceStep ==
    /\ dpc = "reduce"
    /\ idx <= Len(heap)
    /\ LET st == ReduceCallback(heap, acc, idx)
       IN  /\ heap' = st[1]
           /\ acc' = st[2]
    /\ idx' = idx + 1
    /\ UNCHANGED <<results, dpc, output>>
    /\ UNCHANGED <<svars, fvars>>

\* reduce has visited every element
ReduceEnd ==
    /\ dpc = "reduce"
    /\ idx > Len(heap)
    /\ dpc' = "sort"
    /\ UNCHANGED <<results, heap, acc, idx, output>>
    /\ UNCHANGED <<svars, fvars>>

\* uniqueResults.sort(...) and return
SortStep ==
    /\ dpc = "sort"
    /\ LET sorted == SortAcc(heap, acc, <<>>)
       IN  output' = [k \in 1..Len(sorted) |-> heap[sorted[k]]]
    /\ dpc' = "done"
    /\ UNCHANGED <<results, heap, acc, idx>>
    /\ UNCHANGED <<svars, fvars>>

DedupNext == PushResult \/ CallDedup \/ ReduceStep \/ ReduceEnd \/ SortStep

SpecDedup == DedupInit /\ [][DedupNext]_vars

---------------------------------------------------------------------------
(* Strings.  A string is a sequence of one-character strings; a Chinese     *)
(* character is written as its pinyin ("shi" is U+5E02, "qu" is U+533A).   *)

Str_Coordinate == <<"3", "9", ".", "9", ",", "1", "1", "6">>
Str_CurrentZh == <<"dang", "qian", "wei", "zhi">>
Str_CurrentEn == <<"c", "u", "r", "r", "e", "n", "t", " ",
                   "l", "o", "c", "a", "t", "i", "o", "n">>
Str_City == <<"bei", "jing", "shi">>
Str_District == <<"chao", "yang", "qu">>
Str_Address == <<"san", "li", "tun">>

\* args.location of the requests explored
Locations ==
    {Str_Coordinate, Str_CurrentZh, Str_CurrentEn, Str_City, Str_District, Str_Address}

\* String.prototype.includes
Includes(s, k) ==
    \E i \in 1..(Len(s) - Len(k) + 1) : SubSeq(s, i, i + Len(k) - 1) = k

REGION_KEYWORDS ==
    { <<"shi">>, <<"xian">>, <<"qu">>, <<"sheng">>,
      <<"zi", "zhi4", "qu">>, <<"te", "bie", "xing", "zheng", "qu">> }

isRegionSearch(loc) == \E k \in REGION_KEYWORDS : Includes(loc, k)


\* the position after the longest run of characters of class C starting at i
RECURSIVE SkipWhile(_, _, _)
SkipWhile(s, i, C) ==
    IF i <= Len(s) /\ s[i] \in C THEN SkipWhile(s, i + 1, C) ELSE i

SkipOptional(s, i, c) == IF i <= Len(s) /\ s[i] = c THEN i + 1 ELSE i

Digits == {"0", "1", "2", "3", "4", "5", "6", "7", "8", "9"}

\* -?\d+\.?\d* matched at i: the position after it, 0 when it does not match
MatchNumber(s, i) ==
    LET i1 == SkipOptional(s, i, "-")
        i2 == SkipWhile(s, i1, Digits)
        i3 == SkipOptional(s, i2, ".")
    IN  IF i2 = i1 THEN 0 ELSE SkipWhile(s, i3, Digits)

\* /^-?\d+\.?\d*,\s*-?\d+\.?\d*$/.test(location)
isCoordinateFormat(loc) ==
    LET e1 == MatchNumber(loc, 1)
    IN  /\ e1 # 0
        /\ e1 <= Len(loc)
        /\ loc[e1] = ","
        /\ LET b2 == SkipWhile(loc, e1 + 1, {" "})
               e2 == MatchNumber(loc, b2)
           IN  e2 = Len(loc) + 1

IsCurrentLocation(loc) == loc = Str_CurrentZh \/ loc = Str_CurrentEn

DigitValue(c) ==
    CASE c = "0" -> 0 [] c = "1" -> 1 [] c = "2" -> 2 [] c = "3" -> 3
      [] c = "4" -> 4 [] c = "5" -> 5 [] c = "6" -> 6 [] c = "7" -> 7
      [] c = "8" -> 8 [] c = "9" -> 9

RECURSIVE DigitsValue(_, _, _, _)
DigitsValue(s, i, j, a) ==
    IF i >= j THEN a ELSE DigitsValue(s, i + 1, j, 10 * a + DigitValue(s[i]))

\* value in 1e-4 of the first four fraction digits s[i..j-1]
RECURSIVE FractionValue(_, _, _, _)
FractionValue(s, i, j, w) ==
    IF i >= j \/ w = 0 THEN 0
    ELSE w * DigitValue(s[i]) + FractionValue(s, i + 1, j, w \div 10)

\* parseFloat(coord.trim()) || 0, in 1e-4: the longest numeric prefix, 0 when
\* there is none (NaN) 
ParseFloatOrZero(s) ==
    LET b  == SkipWhile(s, 1, {" "})
        i1 == SkipOptional(s, b, "-")
        i2 == SkipWhile(s, i1, Digits)
        i3 == SkipOptional(s, i2, ".")
        i4 == SkipWhile(s, i3, Digits)
        mag == 10000 * DigitsValue(s, i1, i2, 0) + FractionValue(s, i3, i4, 1000)
    IN  IF i2 = i1 /\ (i3 = i2 \/ i4 = i3) THEN 0
        ELSE IF i1 > b THEN -mag ELSE mag

\* coordinate.split(',')
SplitPart(s, n) ==
    LET commas == {i \in 1..Len(s) : s[i] = ","}
        first == IF commas = {} THEN Len(s) + 1
                 ELSE CHOOSE i \in commas : \A j \in commas : i <= j
        rest == {i \in commas : i > first}
        second == IF rest = {} THEN Len(s) + 1
                  ELSE CHOOSE i \in rest : \A j \in rest : i <= j
    IN  IF n = 1 THEN SubSeq(s, 1, first - 1)
        ELSE IF first > Len(s) THEN <<>>
        ELSE SubSeq(s, first + 1, second - 1)

\* a variant of the function below with the two components exchanged
parseCoordinate_Swapped(s) ==
    [kind |-> "ok", lat |-> ParseFloatOrZero(SplitPart(s, 2)),
     lng |-> ParseFloatOrZero(SplitPart(s, 1))]

\* LocationService.parseCoordinate
parseCoordinate(s) ==
    [kind |-> "ok", lat |-> ParseFloatOrZero(SplitPart(s, 1)),
     lng |-> ParseFloatOrZero(SplitPart(s, 2))]

\* a variant of the function below that does not know the sentinels
determineSearchStrategy_NoSentinel(loc) ==
    IF isRegionSearch(loc) THEN "region"
    ELSE IF isCoordinateFormat(loc) THEN "coordinate"
    ELSE "mixed"

\* MapPoiService.determineSearchStrategy
determineSearchStrategy(loc) ==
    IF isRegionSearch(loc) THEN "region"
    ELSE IF isCoordinateFormat(loc) THEN "coordinate"
    ELSE IF IsCurrentLocation(loc) THEN "coordinate"
    ELSE "mixed"

---------------------------------------------------------------------------
(* Providers *)

\* LocationService.DEFAULT_COORDINATES, Tiananmen
DEFAULT_COORDINATES == [kind |-> "ok", lat |-> 399042, lng |-> 1164074]

NoCoordinates == [kind |-> "none", lat |-> 0, lng |-> 0]

\* price_range values (strings, one token per character): U+4FBF U+5B9C,
\* U+4E2D U+7B49, U+6602 U+8D35, U+4EF7 U+683C U+672A U+77E5
Price_Cheap == <<"pian", "yi">>
Price_Medium == <<"zhong", "deng">>
Price_Expensive == <<"ang", "gui">>
Price_Unknown == <<"jia", "ge", "wei", "zhi">>

\* a price string as a provider sends it (biz_ext.cost, detail_info.price):
\* absent, text that parseFloat cannot read, or an amount in tenths of a yuan
NoCost == [has |-> FALSE, numeric |-> FALSE, tenths |-> 0]

NotANumber == [has |-> TRUE, numeric |-> FALSE, tenths |-> 0]

Cost(n) == [has |-> TRUE, numeric |-> TRUE, tenths |-> n]

\* num.toFixed(0) of a non-negative amount: rounded to whole yuan
ToFixed0(tenths) == (tenths + 5) \div 10

\* a Restaurant record with its price_range field
WithPrice(r, priceRange) == [price_range |-> priceRange] @@ r

\* AmapLocationService.parsePriceRange: the yuan sign and the amount
AmapParsePriceRange(cost) ==
    IF ~cost.has \/ ~cost.numeric THEN Price_Unknown
    ELSE <<"yuan", ToString(ToFixed0(cost.tenths))>>

\* what a geocoding endpoint answers: a failure (bad status, no result,
\* network error) or a location
GeocodeResponses ==
    { [ok |-> FALSE, lat |-> 0, lng |-> 0],
      [ok |-> TRUE, lat |-> 312304, lng |-> 1214737] }

\* Math.round(calculateDistance(coordinates, poiLocation)) of lib/baidu for
\* the search centre of the request: a function of the place's location
RoundedDistance(loc) ==
    IF loc = [lat |-> 0, lng |-> 0] THEN 50
    ELSE IF loc = [lat |-> 6, lng |-> 0] THEN 120
    ELSE IF loc = [lat |-> 12, lng |-> 0] THEN 0
    ELSE 130

\* places of a Baidu circle search answer; dist is the rounded distance of
\* the place from the search centre, which searchFoodNearby computes
BaiduPois ==
    { [name |-> "n1", address |-> "a1", location |-> [lat |-> 0, lng |-> 0],
       dist |-> RoundedDistance([lat |-> 0, lng |-> 0])],
      [name |-> "n1", address |-> "a1", location |-> [lat |-> 6, lng |-> 0],
       dist |-> RoundedDistance([lat |-> 6, lng |-> 0])],
      [name |-> "n1", address |-> "a2", location |-> [lat |-> 12, lng |-> 0],
       dist |-> RoundedDistance([lat |-> 12, lng |-> 0])],
      [name |-> "n2", address |-> "a1", location |-> [lat |-> 0, lng |-> 0],
       dist |-> RoundedDistance([lat |-> 0, lng |-> 0])] }

\* pois of an Amap around/text answer; distance is the one Amap reports
AmapPois ==
    { [id |-> "A1", name |-> "n1", location |-> [lat |-> 0, lng |-> 0], rating |-> 35,
       distance |-> 0, cost |-> NoCost],
      [id |-> "A2", name |-> "n1", location |-> [lat |-> 6, lng |-> 0], rating |-> 42,
       distance |-> 120, cost |-> Cost(450)],
      [id |-> "A3", name |-> "n2", location |-> [lat |-> 0, lng |-> 0], rating |-> 42,
       distance |-> 50, cost |-> Cost(1200)],
      [id |-> "A4", name |-> "n2", location |-> [lat |-> 0, lng |-> 12], rating |-> 35,
       distance |-> 0, cost |-> Cost(250)] }

SeqsUpTo(S, n) == UNION { [1..k -> S] : k \in 0..n }

\* a search endpoint answers with a failure (bad status, missing payload,
\* network error) or a list of places
SearchResponses(S) ==
    { [ok |-> FALSE, list |-> <<>>] } \cup
    { [ok |-> TRUE, list |-> l] : l \in SeqsUpTo(S, MaxResp) }

\* lib/baidu MAX_RESULTS
MAX_RESULTS == 20

Take(s, n) == SubSeq(s, 1, IF Len(s) < n THEN Len(s) ELSE n)

\* removeDuplicateResults: the first record of every name|address key
RECURSIVE removeDuplicateResults(_)
removeDuplicateResults(s) ==
    IF s = <<>> THEN <<>>
    ELSE LET init == removeDuplicateResults(SubSeq(s, 1, Len(s) - 1))
             last == s[Len(s)]
         IN  IF \E k \in 1..(Len(s) - 1) :
                    s[k].name = last.name /\ s[k].address = last.address
             THEN init
             ELSE Append(init, last)

\* .sort((a, b) => (a.distance || 0) - (b.distance || 0)), stable
RECURSIVE InsertByDistance(_, _)
InsertByDistance(s, e) ==
    IF s = <<>> THEN <<e>>
    ELSE IF e.dist < Head(s).dist THEN <<e>> \o s
         ELSE <<Head(s)>> \o InsertByDistance(Tail(s), e)

RECURSIVE SortByDistance(_, _)
SortByDistance(s, done) ==
    IF s = <<>> THEN done
    ELSE SortByDistance(Tail(s), InsertByDistance(done, Head(s)))

\* BaiduLocationService.searchFoodNearby, on the answer of the circle search
\* (rating 4.0 and the price bucket are constants there)
searchFoodNearby(resp) ==
    IF ~resp.ok THEN <<>>
    ELSE Take(SortByDistance(removeDuplicateResults(resp.list), <<>>), MAX_RESULTS)

\* MapPoiService.searchFoodInRegion: the map over the Baidu region results
RegionRecords(found) ==
    [k \in 1..Len(found) |->
        WithPrice(Restaurant(<<"region", k - 1>>, found[k].name, found[k].location,
                             40, 0, {"baidu_map"}),
                  Price_Medium)]

\* MapPoiService.searchNearbyFoodWithBaidu: the map over searchFoodNearby
BaiduCircleRecords(found) ==
    [k \in 1..Len(found) |->
        WithPrice(Restaurant(<<"baidu_circle", k - 1>>, found[k].name,
                             found[k].location, 40, found[k].dist, {"baidu_map"}),
                  Price_Medium)]

\* AmapLocationService.parseRating, in tenths
parseRating(r) == IF r = 0 THEN 0 ELSE IF r > 50 THEN 50 ELSE IF r < 0 THEN 0 ELSE r

\* MapPoiService.formatAmapPoi
formatAmapPoi(poi) ==
    WithPrice(Restaurant(<<"amap", poi.id>>, poi.name, poi.location,
                         parseRating(poi.rating), poi.distance, {"amap"}),
              AmapParsePriceRange(poi.cost))

\* a variant of the wrapper below that lets the failure escape to its caller
CaughtToEmpty_Rethrow(resp, records) ==
    IF resp.ok THEN [thrown |-> FALSE, list |-> records]
    ELSE [thrown |-> TRUE, list |-> <<>>]

\* a provider wrapper's try/catch: the records on success, [] on any failure
\* (thrown says whether the failure escapes to the wrapper's caller)
CaughtToEmpty(resp, records) ==
    IF resp.ok THEN [thrown |-> FALSE, list |-> records]
    ELSE [thrown |-> FALSE, list |-> <<>>]

\* searchNearbyFoodWithAmap / searchFoodWithAmapText
AmapRecords(resp) ==
    CaughtToEmpty(resp, [k \in 1..Len(resp.list) |-> formatAmapPoi(resp.list[k])])

\* searchNearbyFoodWithBaidu: searchFoodNearby catches its own failures and
\* returns [], so nothing is thrown into this wrapper
BaiduNearbyRecords(resp) ==
    [thrown |-> FALSE, list |-> BaiduCircleRecords(searchFoodNearby(resp))]

---------------------------------------------------------------------------
(* Spec: one search_map_poi request *)

\* the provider endpoints a request can call; pc is the site's name while
\* its answer is awaited
Site_RegionGeocode == "region.geocode"         \* BaiduLocationService.geocodeAddress
Site_RegionSuggestion == "region.suggestion"   \* BaiduLocationService.searchSuggestion
Site_RegionCircle == "region.circle"           \* searchPlaceInCircle, radius 2000
Site_Text == "text"                            \* Amap place/text
Site_ResolveBaidu == "resolve.baidu"           \* LocationService.geocodeWithBaidu
Site_ResolveAmap == "resolve.amap"             \* LocationService.geocodeWithAmap
Site_NearbyBaidu == "nearby.baidu"             \* searchPlaceInCircle, request radius
Site_NearbyAmap == "nearby.amap"               \* Amap place/around
Site_IpLocate == "amap.ip"                     \* AmapLocationService.getCurrentLocationByIp

Sites ==
    { Site_RegionGeocode, Site_RegionSuggestion, Site_RegionCircle, Site_Text,
      Site_ResolveBaidu, Site_ResolveAmap, Site_NearbyBaidu, Site_NearbyAmap,
      Site_IpLocate }

\* the sites called with axios.get(url, { params }) by the code in hand
AxiosSites == { Site_Text, Site_ResolveBaidu, Site_ResolveAmap, Site_NearbyAmap }

\* args.location is absent from the arguments (undefined)
Str_Missing == <<"undefined">>

\* args.location of a tool call
RequestLocations == Locations \cup {Str_Missing}

\* request.params.name
ToolNames == {"search_map_poi", "no_such_tool"}

\* the answers of the CallToolRequestSchema handler's catch block
ErrorResponses == {"error.unknownTool", "error.arguments", "error.search"}

\* args.map_platforms
PlatformArgs == { {"all"}, {"baidu"}, {"amap"}, {"baidu", "amap"} }

\* what the suggestion endpoint answers: a failure, or a list of places
SuggestionResponses ==
    { [ok |-> FALSE, list |-> <<>>],
      [ok |-> TRUE, list |-> <<>>],
      [ok |-> TRUE, list |-> << [lat |-> 312304, lng |-> 1214737] >>] }

Outcome(resp) ==
    IF ~resp.ok THEN "fail" ELSE IF resp.list = <<>> THEN "empty" ELSE "ok"

Init ==
    /\ results = <<>> /\ heap = <<>> /\ acc = <<>> /\ idx = 1
    /\ dpc = "idle" /\ output = <<>>
    /\ IdleFilter
    /\ pc \in {"dispatch", "dispatchPkg"}
    /\ location \in RequestLocations
    /\ platforms \in PlatformArgs
    /\ baiduKey \in BOOLEAN
    /\ amapKey \in BOOLEAN
    /\ strategy = "none"
    /\ calls = <<>>
    /\ out = [s \in Sites |-> "none"]
    /\ got = [s \in Sites |-> <<>>]
    /\ regionResults = <<>>
    /\ fan = <<>>
    /\ coords = NoCoordinates
    /\ ret = <<>>
    /\ response = "none"
    /\ hung = FALSE

\* an awaited provider call is sent
Issue(site) ==
    /\ calls' = Append(calls, site)
    /\ pc' = site

Answered(site, outcome) == out' = [out EXCEPT ![site] = outcome]

\* the CallToolRequestSchema handler: an unknown tool name throws, and so
\* does the destructuring of absent arguments in handleSearchMapPoi; the
\* catch block answers both with an error text
CallTool ==
    /\ pc \in {"dispatch", "dispatchPkg"}
    /\ \E name \in ToolNames, hasArgs \in BOOLEAN :
          IF name # "search_map_poi"
          THEN response' = "error.unknownTool" /\ pc' = "done"
          ELSE IF ~hasArgs
          THEN response' = "error.arguments" /\ pc' = "done"
          ELSE /\ pc' = IF pc = "dispatch" THEN "handler" ELSE "handlerPkg"
               /\ UNCHANGED response
    /\ UNCHANGED <<location, platforms, baiduKey, amapKey, strategy, calls, out, got,
                   regionResults, fan, coords, ret, hung>>
    /\ UNCHANGED <<dvars, fvars>>

\* handleSearchMapPoi up to the call of searchFood
HandleSearchMapPoi ==
    /\ pc = "handler"
    /\ platforms' = IF "all" \in platforms THEN {"baidu", "amap"} ELSE platforms
    /\ pc' = "searchFood"
    /\ UNCHANGED <<location, baiduKey, amapKey, strategy, calls, out, got,
                   regionResults, fan, coords, ret, response, hung>>
    /\ UNCHANGED <<dvars, fvars>>

\* the platforms of a request whose API key is set
AvailablePlatforms(requested) ==
    {x \in requested : (x = "baidu" /\ baiduKey) \/ (x = "amap" /\ amapKey)}

\* handleSearchMapPoi of the packaged server (packages' index.ts) up to the
\* call of searchFood: it answers at once when no API key is set or no
\* requested platform has one, and hands searchFood the platforms that do
HandleSearchMapPoi_Package ==
    /\ pc = "handlerPkg"
    /\ LET requested == IF "all" \in platforms THEN {"baidu", "amap"} ELSE platforms
       IN  IF ~baiduKey /\ ~amapKey
           THEN response' = "config" /\ pc' = "done" /\ UNCHANGED platforms
           ELSE IF AvailablePlatforms(requested) = {}
           THEN response' = "noplatform" /\ pc' = "done" /\ UNCHANGED platforms
           ELSE /\ platforms' = AvailablePlatforms(requested)
                /\ pc' = "searchFood"
                /\ UNCHANGED response
    /\ UNCHANGED <<location, baiduKey, amapKey, strategy, calls, out, got,
                   regionResults, fan, coords, ret, hung>>
    /\ UNCHANGED <<dvars, fvars>>

\* a variant of the catch below that lets the error escape to the handler
SearchFoodCatch_Rethrow(error) == "threw"

\* searchFood's outer catch: the error is logged and [] returned
SearchFoodCatch(error) == "returned"

\* searchFood: the strategy and the branch taken; with no location string,
\* location.includes throws a TypeError inside the try block (an error that
\* escaped would be rethrown by handleSearchMapPoi and answered by the
\* dispatcher's catch)
SearchFood ==
    /\ pc = "searchFood"
    /\ IF location = Str_Missing
       THEN /\ pc' = IF SearchFoodCatch("TypeError") = "returned" THEN "returned"
                                                                  ELSE "done"
            /\ response' = IF SearchFoodCatch("TypeError") = "returned" THEN response
                                                                        ELSE "error.search"
            /\ ret' = <<>>
            /\ UNCHANGED strategy
       ELSE /\ strategy' = determineSearchStrategy(location)
            /\ pc' = CASE strategy' = "region" ->
                            IF "baidu" \in platforms THEN "baiduRegion" ELSE "amapText"
                       [] strategy' = "coordinate" -> "resolve"
                       [] OTHER -> "baiduRegion"
            /\ UNCHANGED <<ret, response>>
    /\ UNCHANGED <<location, platforms, baiduKey, amapKey, calls, out, got,
                   regionResults, fan, coords, hung>>
    /\ UNCHANGED <<dvars, fvars>>

\* BaiduLocationService.searchFoodInRegion up to its first await; without an
\* api client geocodeAddress and searchSuggestion throw, and the outer catch
\* returns []
BaiduRegionStart ==
    /\ pc = "baiduRegion"
    /\ IF baiduKey /\ ~isRegionSearch(location)
       THEN Issue(Site_RegionGeocode) /\ UNCHANGED regionResults
       ELSE IF baiduKey
            THEN Issue(Site_RegionSuggestion) /\ UNCHANGED regionResults
            ELSE /\ regionResults' = <<>>
                 /\ pc' = "afterRegion"
                 /\ UNCHANGED calls
    /\ UNCHANGED <<location, platforms, baiduKey, amapKey, strategy, out, got,
                   fan, coords, ret, response, hung>>
    /\ UNCHANGED <<dvars, fvars>>

\* the geocode of the address answers: circle search around it, or on failure
\* the suggestion search
RegionGeocodeRespond ==
    /\ pc = Site_RegionGeocode /\ ~hung
    /\ \E resp \in GeocodeResponses :
          IF resp.ok
          THEN Answered(Site_RegionGeocode, "ok") /\ Issue(Site_RegionCircle)
          ELSE Answered(Site_RegionGeocode, "fail") /\ Issue(Site_RegionSuggestion)
    /\ UNCHANGED <<location, platforms, baiduKey, amapKey, strategy, got,
                   regionResults, fan, coords, ret, response, hung>>
    /\ UNCHANGED <<dvars, fvars>>

\* the suggestion search answers: [] on failure or no suggestion, else the
\* circle search around the first suggestion
SuggestionRespond ==
    /\ pc = Site_RegionSuggestion /\ ~hung
    /\ \E resp \in SuggestionResponses :
          /\ Answered(Site_RegionSuggestion, Outcome(resp))
          /\ IF resp.ok /\ Len(resp.list) > 0
             THEN Issue(Site_RegionCircle) /\ UNCHANGED regionResults
             ELSE /\ regionResults' = <<>>
                  /\ pc' = "afterRegion"
                  /\ UNCHANGED calls
    /\ UNCHANGED <<location, platforms, baiduKey, amapKey, strategy, got,
                   fan, coords, ret, response, hung>>
    /\ UNCHANGED <<dvars, fvars>>

\* the 2000 m circle search answers; MapPoiService.searchFoodInRegion maps
\* what BaiduLocationService.searchFoodInRegion returns
RegionCircleRespond ==
    /\ pc = Site_RegionCircle /\ ~hung
    /\ \E resp \in SearchResponses(BaiduPois) :
          /\ Answered(Site_RegionCircle, Outcome(resp))
          /\ regionResults' = RegionRecords(searchFoodNearby(resp))
          /\ got' = [got EXCEPT ![Site_RegionCircle] = regionResults']
    /\ pc' = "afterRegion"
    /\ UNCHANGED <<location, platforms, baiduKey, amapKey, strategy, calls,
                   fan, coords, ret, response, hung>>
    /\ UNCHANGED <<dvars, fvars>>

\* region branch: results.push(...baiduResults)
RegionPushBaidu ==
    /\ pc = "afterRegion" /\ strategy = "region"
    /\ fan' = fan \o regionResults
    /\ pc' = "amapText"
    /\ UNCHANGED <<location, platforms, baiduKey, amapKey, strategy, calls, out, got,
                   regionResults, coords, ret, response, hung>>
    /\ UNCHANGED <<dvars, fvars>>

\* variants of the branch below: one returns whatever the region attempt
\* found, the other always goes on to the coordinate path
MixedNext_ReturnAlways(rr) == "returned"

MixedNext_ResolveAlways(rr) == "resolve"

\* mixed branch: what follows the region attempt
MixedNext(rr) == IF Len(rr) > 0 THEN "returned" ELSE "resolve"

\* mixed branch: `if (regionResults.length > 0) return regionResults`
MixedRegionCheck ==
    /\ pc = "afterRegion" /\ strategy = "mixed"
    /\ pc' = MixedNext(regionResults)
    /\ ret' = IF pc' = "returned" THEN regionResults ELSE ret
    /\ UNCHANGED <<location, platforms, baiduKey, amapKey, strategy, calls, out, got,
                   regionResults, fan, coords, response, hung>>
    /\ UNCHANGED <<dvars, fvars>>

\* a variant of the branch end below that falls back to the coordinate path
\* when the region fan-out found nothing
RegionNext_FallBack(list) == IF Len(list) > 0 THEN "returned" ELSE "resolve"

\* region branch: `return this.deduplicateAndSort(results)`, whatever the list
RegionNext(list) == "returned"

\* region branch: the Amap text search when eligible, else deduplicateAndSort
AmapTextStart ==
    /\ pc = "amapText"
    /\ IF "amap" \in platforms /\ amapKey
       THEN Issue(Site_Text) /\ UNCHANGED ret
       ELSE /\ ret' = deduplicateAndSort(fan)
            /\ pc' = RegionNext(ret')
            /\ UNCHANGED calls
    /\ UNCHANGED <<location, platforms, baiduKey, amapKey, strategy, out, got,
                   regionResults, fan, coords, response, hung>>
    /\ UNCHANGED <<dvars, fvars>>

\* the Amap text search answers; searchFoodWithAmapText, push, deduplicateAndSort
\* (a failure escaping the wrapper would reach searchFood's catch: [])
AmapTextRespond ==
    /\ pc = Site_Text /\ ~hung
    /\ \E resp \in SearchResponses(AmapPois) :
          LET w == AmapRecords(resp)
          IN  /\ Answered(Site_Text, Outcome(resp))
              /\ got' = [got EXCEPT ![Site_Text] = w.list]
              /\ fan' = IF w.thrown THEN fan ELSE fan \o w.list
              /\ ret' = IF w.thrown THEN <<>> ELSE deduplicateAndSort(fan')
    /\ pc' = RegionNext(ret')
    /\ UNCHANGED <<location, platforms, baiduKey, amapKey, strategy, calls,
                   regionResults, coords, response, hung>>
    /\ UNCHANGED <<dvars, fvars>>

\* LocationService.geocodeAddress: the catch block's `return DEFAULT_COORDINATES`
GeocodeFailure == DEFAULT_COORDINATES

AsCoordinates(resp) ==
    IF resp.ok THEN [kind |-> "ok", lat |-> resp.lat, lng |-> resp.lng]
    ELSE GeocodeFailure

\* LocationService.getCoordinates up to its first await: a coordinate pair is
\* parsed, the current-location sentinel gets DEFAULT_COORDINATES, anything
\* else goes to geocodeAddress (Baidu if its key is set, else Amap if its key
\* is set, else the thrown error is caught: DEFAULT_COORDINATES)
Resolve ==
    /\ pc = "resolve"
    /\ IF isCoordinateFormat(location)
       THEN coords' = parseCoordinate(location) /\ pc' = "nearby" /\ UNCHANGED calls
       ELSE IF IsCurrentLocation(location)
       THEN coords' = DEFAULT_COORDINATES /\ pc' = "nearby" /\ UNCHANGED calls
       ELSE IF baiduKey
       THEN Issue(Site_ResolveBaidu) /\ UNCHANGED coords
       ELSE IF amapKey
       THEN Issue(Site_ResolveAmap) /\ UNCHANGED coords
       ELSE coords' = GeocodeFailure /\ pc' = "nearby" /\ UNCHANGED calls
    /\ UNCHANGED <<location, platforms, baiduKey, amapKey, strategy, out, got,
                   regionResults, fan, ret, response, hung>>
    /\ UNCHANGED <<dvars, fvars>>

\* geocodeWithBaidu answers: `return await this.geocodeWithBaidu(address)`,
\* a failure is caught by geocodeAddress
GeocodeBaiduRespond ==
    /\ pc = Site_ResolveBaidu /\ ~hung
    /\ \E resp \in GeocodeResponses :
          /\ Answered(Site_ResolveBaidu, IF resp.ok THEN "ok" ELSE "fail")
          /\ coords' = AsCoordinates(resp)
    /\ pc' = "nearby"
    /\ UNCHANGED <<location, platforms, baiduKey, amapKey, strategy, calls, got,
                   regionResults, fan, ret, response, hung>>
    /\ UNCHANGED <<dvars, fvars>>

\* geocodeWithAmap answers
GeocodeAmapRespond ==
    /\ pc = Site_ResolveAmap /\ ~hung
    /\ \E resp \in GeocodeResponses :
          /\ Answered(Site_ResolveAmap, IF resp.ok THEN "ok" ELSE "fail")
          /\ coords' = AsCoordinates(resp)
    /\ pc' = "nearby"
    /\ UNCHANGED <<location, platforms, baiduKey, amapKey, strategy, calls, got,
                   regionResults, fan, ret, response, hung>>
    /\ UNCHANGED <<dvars, fvars>>

\* searchNearbyFood: `const results = []`, then the Baidu search when eligible
NearbyStart ==
    /\ pc = "nearby"
    /\ fan' = <<>>
    /\ IF "baidu" \in platforms /\ baiduKey
       THEN Issue(Site_NearbyBaidu)
       ELSE pc' = "nearbyAmap" /\ UNCHANGED calls
    /\ UNCHANGED <<location, platforms, baiduKey, amapKey, strategy, out, got,
                   regionResults, coords, ret, response, hung>>
    /\ UNCHANGED <<dvars, fvars>>

\* the Baidu circle search answers; searchNearbyFoodWithBaidu, push
NearbyBaiduRespond ==
    /\ pc = Site_NearbyBaidu /\ ~hung
    /\ \E resp \in SearchResponses(BaiduPois) :
          LET w == BaiduNearbyRecords(resp)
          IN  /\ Answered(Site_NearbyBaidu, Outcome(resp))
              /\ got' = [got EXCEPT ![Site_NearbyBaidu] = w.list]
              /\ fan' = fan \o w.list
    /\ pc' = "nearbyAmap"
    /\ UNCHANGED <<location, platforms, baiduKey, amapKey, strategy, calls,
                   regionResults, coords, ret, response, hung>>
    /\ UNCHANGED <<dvars, fvars>>

\* searchNearbyFood: the Amap search when eligible, else deduplicateAndSort
NearbyAmapStart ==
    /\ pc = "nearbyAmap"
    /\ IF "amap" \in platforms /\ amapKey
       THEN Issue(Site_NearbyAmap) /\ UNCHANGED ret
       ELSE /\ ret' = deduplicateAndSort(fan)
            /\ pc' = "returned"
            /\ UNCHANGED calls
    /\ UNCHANGED <<location, platforms, baiduKey, amapKey, strategy, out, got,
                   regionResults, fan, coords, response, hung>>
    /\ UNCHANGED <<dvars, fvars>>

\* the Amap around search answers; searchNearbyFoodWithAmap, push,
\* deduplicateAndSort
NearbyAmapRespond ==
    /\ pc = Site_NearbyAmap /\ ~hung
    /\ \E resp \in SearchResponses(AmapPois) :
          LET w == AmapRecords(resp)
          IN  /\ Answered(Site_NearbyAmap, Outcome(resp))
              /\ got' = [got EXCEPT ![Site_NearbyAmap] = w.list]
              /\ fan' = IF w.thrown THEN fan ELSE fan \o w.list
              /\ ret' = IF w.thrown THEN <<>> ELSE deduplicateAndSort(fan')
    /\ pc' = "returned"
    /\ UNCHANGED <<location, platforms, baiduKey, amapKey, strategy, calls,
                   regionResults, coords, response, hung>>
    /\ UNCHANGED <<dvars, fvars>>

\* handleSearchMapPoi after searchFood returned: the not-found text when the
\* list is empty, else the result text (searchFood never throws)
HandlerRespond ==
    /\ pc = "returned"
    /\ response' = IF Len(ret) = 0 THEN "notfound" ELSE "found"
    /\ pc' = "done"
    /\ UNCHANGED <<location, platforms, baiduKey, amapKey, strategy, calls, out, got,
                   regionResults, fan, coords, ret, hung>>
    /\ UNCHANGED <<dvars, fvars>>

\* the environment: the server of a pending axios.get(url, { params }) call
\* keeps the connection open and never answers; no timeout is configured,
\* so the await never settles
ProviderNeverAnswers ==
    /\ pc \in AxiosSites /\ ~hung
    /\ hung' = TRUE
    /\ UNCHANGED <<pc, location, platforms, baiduKey, amapKey, strategy, calls, out,
                   got, regionResults, fan, coords, ret, response>>
    /\ UNCHANGED <<dvars, fvars>>

Next ==
    \/ CallTool \/ HandleSearchMapPoi \/ HandleSearchMapPoi_Package \/ SearchFood
    \/ BaiduRegionStart \/ RegionGeocodeRespond \/ SuggestionRespond
    \/ RegionCircleRespond \/ RegionPushBaidu \/ MixedRegionCheck
    \/ AmapTextStart \/ AmapTextRespond
    \/ Resolve \/ GeocodeBaiduRespond \/ GeocodeAmapRespond
    \/ NearbyStart \/ NearbyBaiduRespond \/ NearbyAmapStart \/ NearbyAmapRespond
    \/ HandlerRespond \/ ProviderNeverAnswers

Spec == Init /\ [][Next]_vars

\* the event loop runs every continuation whose awaited call has settled
FairSpec == Init /\ [][Next]_vars /\ WF_vars(Next)

---------------------------------------------------------------------------
(* MapPoiService filters.  The empty string is the absent (falsy) argument. *)

\* cuisine_type values and a tag: U+5DDD U+83DC, U+5176 U+4ED6, U+5DDD U+83DC
\* U+9986
Cuisine_Sichuan == <<"chuan", "cai">>
Cuisine_Other == <<"qi", "ta">>
Tag_SichuanHouse == <<"chuan", "cai", "guan">>

\* a Restaurant record with its cuisine_type and tags fields
WithCuisine(r, cuisineType, tags) ==
    [cuisine_type |-> cuisineType, tags |-> tags] @@ r

\* a variant of the filter below without its first line
filterByCuisineType_NoEarlyReturn(list, cuisineType) ==
    SelectSeq(list, LAMBDA r :
        \/ r.cuisine_type = cuisineType
        \/ \E i \in 1..Len(r.tags) : Includes(r.tags[i], cuisineType))

\* a variant of the filter below that drops the first record it would keep
filterByCuisineType_DropFirst(list, cuisineType) ==
    IF cuisineType = <<>> THEN list
    ELSE LET kept == SelectSeq(list, LAMBDA r :
                        \/ r.cuisine_type = cuisineType
                        \/ \E i \in 1..Len(r.tags) : Includes(r.tags[i], cuisineType))
         IN  IF kept = <<>> THEN kept ELSE Tail(kept)

\* MapPoiService.filterByCuisineType
filterByCuisineType(list, cuisineType) ==
    IF cuisineType = <<>> THEN list
    ELSE SelectSeq(list, LAMBDA r :
            \/ r.cuisine_type = cuisineType
            \/ \E i \in 1..Len(r.tags) : Includes(r.tags[i], cuisineType))

\* a variant of the filter below that keeps the first match only
filterByPriceRange_FirstOnly(list, priceRange) ==
    IF priceRange = <<>> THEN list
    ELSE Take(SelectSeq(list, LAMBDA r : r.price_range = priceRange), 1)

\* MapPoiService.filterByPriceRange
filterByPriceRange(list, priceRange) ==
    IF priceRange = <<>> THEN list
    ELSE SelectSeq(list, LAMBDA r : r.price_range = priceRange)

\* MapPoiService.filterByDistance (maxDistance 0 is falsy)
filterByDistance(list, max) ==
    IF max = 0 THEN list
    ELSE SelectSeq(list, LAMBDA r : r.distance <= max)

\* LocationService.parsePriceRange
LocationService_parsePriceRange_CheapInclusive(p) ==
    IF ~p.has THEN Price_Medium
    ELSE IF ~p.numeric THEN Price_Medium
    ELSE IF p.tenths <= CheapBelow THEN Price_Cheap
    ELSE IF p.tenths > ExpensiveAbove THEN Price_Expensive
    ELSE Price_Medium

LocationService_parsePriceRange(p) ==
    IF ~p.has THEN Price_Medium
    ELSE IF ~p.numeric THEN Price_Medium
    ELSE IF p.tenths < CheapBelow THEN Price_Cheap
    ELSE IF p.tenths > ExpensiveAbove THEN Price_Expensive
    ELSE Price_Medium

\* parsePriceRange of lib/baidu, which BaiduLocationService.parsePriceRange
\* forwards to
parsePriceRange(p) ==
    IF ~p.has THEN Price_Medium
    ELSE IF ~p.numeric THEN Price_Medium
    ELSE IF p.tenths < CheapBelow THEN Price_Cheap
    ELSE IF p.tenths > ExpensiveAbove THEN Price_Expensive
    ELSE Price_Medium

---------------------------------------------------------------------------
(* SpecClassify: determineSearchStrategy and getCoordinates on typed strings *)
(* (getCoordinates has returned when pc = "nearby")                         *)

\* the characters a typed location is made of: what the coordinate pattern
\* reads, a region keyword, and a character that is neither
Alphabet == {"1", "5", ",", ".", "-", " ", "shi", "dang"}

IdleDedup ==
    /\ results = <<>> /\ heap = <<>> /\ acc = <<>> /\ idx = 1
    /\ dpc = "idle" /\ output = <<>>

ClassifyInit ==
    /\ IdleDedup
    /\ IdleFilter
    /\ pc = "typing"
    /\ location \in ({<<>>} \cup Locations)
    /\ platforms = {}
    /\ baiduKey \in BOOLEAN
    /\ amapKey \in BOOLEAN
    /\ strategy = "none"
    /\ calls = <<>>
    /\ out = [s \in Sites |-> "none"]
    /\ got = [s \in Sites |-> <<>>]
    /\ regionResults = <<>> /\ fan = <<>>
    /\ coords = NoCoordinates
    /\ ret = <<>> /\ response = "none" /\ hung = FALSE

\* the caller builds args.location
TypeChar ==
    /\ pc = "typing"
    /\ Len(location) < MaxStr
    /\ \E c \in Alphabet : location' = Append(location, c)
    /\ UNCHANGED <<pc, platforms, baiduKey, amapKey, strategy, calls, out, got,
                   regionResults, fan, coords, ret, response, hung>>
    /\ UNCHANGED <<dvars, fvars>>

\* this.determineSearchStrategy(location); the caller then asks
\* LocationService.getCoordinates for the coordinates of the string
Classify ==
    /\ pc = "typing"
    /\ strategy' = determineSearchStrategy(location)
    /\ pc' = "resolve"
    /\ UNCHANGED <<location, platforms, baiduKey, amapKey, calls, out, got,
                   regionResults, fan, coords, ret, response, hung>>
    /\ UNCHANGED <<dvars, fvars>>

ClassifyNext ==
    TypeChar \/ Classify \/ Resolve \/ GeocodeBaiduRespond \/ GeocodeAmapRespond

SpecClassify == ClassifyInit /\ [][ClassifyNext]_vars

---------------------------------------------------------------------------
(* SpecFilter: filterByDistance and parsePriceRange called on their own *)

\* distances of the records handed to the filter, in metres
FilterDistances == {0, 50, 120}

\* maxDistance arguments
MaxDistances == {0, 50, 100, 200}

\* prices handed to parsePriceRange
Prices == {NoCost, NotANumber} \cup { Cost(n) : n \in 0..MaxPrice }

FilterInit ==
    /\ IdleDedup
    /\ IdleSearch
    /\ restaurants = <<>>
    /\ maxDistance = 0
    /\ filtered = <<>>
    /\ price = NoCost
    /\ bucket = [service |-> <<>>, lib |-> <<>>]
    /\ fpc = "collect"
    /\ IdleChain

\* the caller builds the list
PushRestaurant ==
    /\ fpc = "collect"
    /\ Len(restaurants) < MaxFilterLen
    /\ \E d \in FilterDistances :
          restaurants' =
              Append(restaurants,
                     WithPrice(Restaurant(Len(restaurants) + 1, "n1",
                                          [lat |-> 0, lng |-> 0], 40, d, {"amap"}),
                               Price_Medium))
    /\ UNCHANGED <<maxDistance, filtered, price, bucket, fpc>>
    /\ UNCHANGED <<criteria, applied, estimates, blended>>
    /\ UNCHANGED <<dvars, svars>>

\* this.filterByDistance(restaurants, maxDistance)
FilterByDistance ==
    /\ fpc = "collect"
    /\ \E m \in MaxDistances :
          /\ maxDistance' = m
          /\ filtered' = filterByDistance(restaurants, m)
    /\ fpc' = "filtered"
    /\ UNCHANGED <<restaurants, price, bucket>>
    /\ UNCHANGED <<criteria, applied, estimates, blended>>
    /\ UNCHANGED <<dvars, svars>>

\* parsePriceRange(price), by both implementations
ParsePrice ==
    /\ bucket.service = <<>>
    /\ \E p \in Prices :
          /\ price' = p
          /\ bucket' = [service |-> LocationService_parsePriceRange(p),
                        lib |-> parsePriceRange(p)]
    /\ UNCHANGED <<restaurants, maxDistance, filtered, fpc>>
    /\ UNCHANGED <<criteria, applied, estimates, blended>>
    /\ UNCHANGED <<dvars, svars>>

FilterNext == PushRestaurant \/ FilterByDistance \/ ParsePrice

SpecFilter == FilterInit /\ [][FilterNext]_vars

---------------------------------------------------------------------------
(* SpecDistance: AmapLocationService.calculateDistance.  The square root    *)
(* and the trigonometry are not computed: the planar estimate `distance`    *)
(* and `haversineDistance` are drawn from the whole metres of a range, and  *)
(* the function's branch and average are applied to them.  Distances here   *)
(* are in half metres, so that the average of two whole metres is exact.    *)

\* the values `distance` and `haversineDistance` can have, in half metres
Estimates == { 2 * m : m \in MinEstimate..MaxEstimate }

\* a variant of the function below that averages from 1000 m on
calculateDistance_BlendAtThreshold(distance, haversineDistance) ==
    IF distance >= BlendAbove
    THEN (distance + haversineDistance) \div 2
    ELSE distance

\* AmapLocationService.calculateDistance, from `const distance` on
calculateDistance(distance, haversineDistance) ==
    IF distance > BlendAbove
    THEN (distance + haversineDistance) \div 2
    ELSE distance

DistanceInit ==
    /\ IdleDedup
    /\ IdleSearch
    /\ IdleFilter

\* this.calculateDistance(coord1, coord2)
CalculateDistance ==
    /\ blended = -1
    /\ \E planar \in Estimates, haversine \in Estimates :
          /\ estimates' = [planar |-> planar, haversine |-> haversine]
          /\ blended' = calculateDistance(planar, haversine)
    /\ UNCHANGED <<restaurants, maxDistance, filtered, price, bucket, fpc,
                   criteria, applied>>
    /\ UNCHANGED <<dvars, svars>>

DistanceNext == CalculateDistance

SpecDistance == DistanceInit /\ [][DistanceNext]_vars

---------------------------------------------------------------------------
(* SpecChain: the three filters called one after another on one list, in   *)
(* any order, and the two filter calls of handleSearchMapPoi                *)

\* the records a filtered list is built from
FilterCandidates ==
    { [cuisine_type |-> Cuisine_Sichuan, tags |-> <<>>,
       price_range |-> Price_Medium, distance |-> 50, rating |-> 42],
      [cuisine_type |-> Cuisine_Other, tags |-> <<Tag_SichuanHouse>>,
       price_range |-> Price_Medium, distance |-> 120, rating |-> 42],
      [cuisine_type |-> Cuisine_Other, tags |-> <<>>,
       price_range |-> <<"yuan", "45">>, distance |-> 50, rating |-> 35],
      [cuisine_type |-> Cuisine_Sichuan, tags |-> <<>>,
       price_range |-> <<"yuan", "45">>, distance |-> 120, rating |-> 35],
      [cuisine_type |-> Cuisine_Other, tags |-> <<Tag_SichuanHouse>>,
       price_range |-> Price_Cheap, distance |-> 0, rating |-> 35],
      [cuisine_type |-> Cuisine_Other, tags |-> <<>>,
       price_range |-> Price_Medium, distance |-> 0, rating |-> 42] }

\* the filter arguments: the empty string and 0 are the absent ones
CuisineArgs == {<<>>, Cuisine_Sichuan}

PriceArgs == {<<>>, Price_Medium}

DistanceArgs == {0, 50, 200}

ChainInit == FilterInit

\* the caller builds the list
PushCandidate ==
    /\ fpc = "collect"
    /\ Len(restaurants) < MaxChainLen
    /\ \E c \in FilterCandidates :
          restaurants' =
              Append(restaurants,
                     WithCuisine(WithPrice(Restaurant(Len(restaurants) + 1, "n1",
                                                      [lat |-> 0, lng |-> 0],
                                                      c.rating, c.distance, {"amap"}),
                                           c.price_range),
                                 c.cuisine_type, c.tags))
    /\ UNCHANGED <<maxDistance, filtered, price, bucket, fpc>>
    /\ UNCHANGED <<criteria, applied, estimates, blended>>
    /\ UNCHANGED <<dvars, svars>>

\* let filteredResults = results, with the arguments of the request
StartChain ==
    /\ fpc = "collect"
    /\ \E c \in CuisineArgs, p \in PriceArgs, d \in DistanceArgs :
          criteria' = [cuisine_type |-> c, price_range |-> p, max_distance |-> d]
    /\ filtered' = restaurants
    /\ applied' = <<>>
    /\ fpc' = "filtering"
    /\ UNCHANGED <<restaurants, maxDistance, price, bucket, estimates, blended>>
    /\ UNCHANGED <<dvars, svars>>

\* filteredResults = filterByCuisineType(filteredResults, cuisine_type)
ChainCuisine ==
    /\ fpc = "filtering" /\ Len(applied) < MaxApplied
    /\ filtered' = filterByCuisineType(filtered, criteria.cuisine_type)
    /\ applied' = Append(applied, "cuisine")
    /\ UNCHANGED <<restaurants, maxDistance, price, bucket, fpc, criteria,
                   estimates, blended>>
    /\ UNCHANGED <<dvars, svars>>

\* filteredResults = filterByPriceRange(filteredResults, price_range)
ChainPrice ==
    /\ fpc = "filtering" /\ Len(applied) < MaxApplied
    /\ filtered' = filterByPriceRange(filtered, criteria.price_range)
    /\ applied' = Append(applied, "price")
    /\ UNCHANGED <<restaurants, maxDistance, price, bucket, fpc, criteria,
                   estimates, blended>>
    /\ UNCHANGED <<dvars, svars>>

\* filteredResults = filterByDistance(filteredResults, maxDistance)
ChainDistance ==
    /\ fpc = "filtering" /\ Len(applied) < MaxApplied
    /\ filtered' = filterByDistance(filtered, criteria.max_distance)
    /\ applied' = Append(applied, "distance")
    /\ UNCHANGED <<restaurants, maxDistance, price, bucket, fpc, criteria,
                   estimates, blended>>
    /\ UNCHANGED <<dvars, svars>>

\* handleSearchMapPoi: the cuisine filter when cuisine_type is given, then
\* the price filter when price_range is given
HandleFilters ==
    /\ fpc = "filtering" /\ applied = <<>>
    /\ LET byCuisine == IF criteria.cuisine_type # <<>>
                        THEN filterByCuisineType(filtered, criteria.cuisine_type)
                        ELSE filtered
           byPrice == IF criteria.price_range # <<>>
                      THEN filterByPriceRange(byCuisine, criteria.price_range)
                      ELSE byCuisine
       IN  filtered' = byPrice
    /\ applied' = (IF criteria.cuisine_type # <<>> THEN <<"cuisine">> ELSE <<>>)
                  \o (IF criteria.price_range # <<>> THEN <<"price">> ELSE <<>>)
    /\ fpc' = "handled"
    /\ UNCHANGED <<restaurants, maxDistance, price, bucket, criteria,
                   estimates, blended>>
    /\ UNCHANGED <<dvars, svars>>

ChainNext ==
    \/ PushCandidate \/ StartChain \/ ChainCuisine \/ ChainPrice
    \/ ChainDistance \/ HandleFilters

SpecChain == ChainInit /\ [][ChainNext]_vars

---------------------------------------------------------------------------
(* Claims about deduplicateAndSort, checked under SpecDedup *)

\* every field of a record but its providers
NonProvider(r) ==
    [id |-> r.id, name |-> r.name, location |-> r.location,
     rating |-> r.rating, distance |-> r.distance]

\* C1: when the two records of the input have an identical name and
\* coordinates within 0.001 degree of each other, the output holds exactly
\* one record and its platforms are the union of both inputs' platforms,
\* whichever of the two is rated higher and whichever comes first.
C1_MergedProvidersAreUnion ==
    (dpc = "done" /\ Len(results) = 2 /\ SamePlace(results[1], results[2]))
        => /\ Len(output) = 1
           /\ output[1].platforms = results[1].platforms \cup results[2].platforms

\* C2: on a collision the kept object's non-provider fields become those of
\* the incoming record exactly when the incoming rating is strictly greater;
\* otherwise (lower or equal rating) they stay as they were.
C2_HigherRatingWins ==
    [][ (dpc = "reduce" /\ idx <= Len(heap) /\ idx' = idx + 1
            /\ FindExisting(heap, acc, heap[idx]) # 0)
        => LET k == acc[FindExisting(heap, acc, heap[idx])]
           IN  /\ acc' = acc
               /\ IF heap[idx].rating > heap[k].rating
                  THEN NonProvider(heap'[k]) = NonProvider(heap[idx])
                  ELSE NonProvider(heap'[k]) = NonProvider(heap[k]) ]_vars

\* a collision in which the later record is rated higher and replaced the kept one
C2_Witness ==
    /\ dpc = "done" /\ Len(results) = 2 /\ Len(output) = 1
    /\ results[2].rating > results[1].rating
    /\ output[1].id = results[2].id

\* C16: deduplicateAndSort leaves every record of the list it is handed as
\* it was on entry.
C16_InputRecordsUnchanged ==
    \A k \in 1..Len(results) : heap[k] = results[k]

\* rating within [0,5], distance not negative, at least one provider
WellFormed(r) ==
    /\ r.rating >= 0 /\ r.rating <= 50
    /\ r.distance >= 0
    /\ r.platforms # {}

\* C19: every record deduplicateAndSort returns has a rating within [0,5], a
\* distance of at least 0 and a non-empty platforms, and through the reduce a
\* kept record's platforms only grows: it still holds every provider the
\* record had on entry.
C19_WellFormedAndProvidersGrow ==
    /\ \A k \in 1..Len(output) : WellFormed(output[k])
    /\ \A k \in 1..Len(acc) :
           results[acc[k]].platforms \subseteq heap[acc[k]].platforms

\* the ranges alone, for the records deduplicateAndSort returns
C19_RangesHold ==
    \A k \in 1..Len(output) : WellFormed(output[k])

\* C27: no two records of the list deduplicateAndSort returns are the same
\* place (same name, latitudes and longitudes both within 0.001 degree).
C27_OutputHasNoSamePlace ==
    dpc = "done" =>
        \A i, j \in 1..Len(output) :
            i # j => ~SamePlace(output[i], output[j])

\* name, location, rating and providers of the records of a list
Places(list) ==
    { [name |-> list[k].name, location |-> list[k].location,
       rating |-> list[k].rating, platforms |-> list[k].platforms] :
         k \in 1..Len(list) }

\* the first k records are one provider's list, the others the other's
SplitByProvider(k) ==
    /\ \A i \in 1..k : results[i].platforms = {"baidu_map"}
    /\ \A i \in (k + 1)..Len(results) : results[i].platforms = {"amap"}

\* C28: for a list that is the Baidu records followed by the Amap records,
\* deduplicateAndSort returns the same places as for the Amap records
\* followed by the Baidu records.
C28_ConcatenationOrderIrrelevant ==
    dpc = "done" =>
        \A k \in 1..(Len(results) - 1) :
            SplitByProvider(k) =>
                Places(output) =
                    Places(deduplicateAndSort(
                               SubSeq(results, k + 1, Len(results))
                               \o SubSeq(results, 1, k)))

\* C29: the output is not longer than the input; the non-provider fields of
\* every output record are those of one input record; its providers are
\* providers of input records of the same name; and the name of every input
\* record is on some output record.
C29_NothingInventedOrLost ==
    dpc = "done" =>
        /\ Len(output) <= Len(results)
        /\ \A i \in 1..Len(output) :
              /\ \E k \in 1..Len(results) :
                    NonProvider(output[i]) = NonProvider(results[k])
              /\ output[i].platforms \subseteq
                    UNION { results[k].platforms :
                              k \in { m \in 1..Len(results) :
                                        results[m].name = output[i].name } }
        /\ \A k \in 1..Len(results) :
              \E i \in 1..Len(output) : output[i].name = results[k].name

\* three records of two names went in, a higher-rated duplicate replaced the
\* kept record, two records came out
C29_Witness ==
    /\ dpc = "done" /\ Len(results) = 3 /\ Len(output) = 2
    /\ results[1].name = results[2].name /\ results[3].name # results[1].name
    /\ results[2].rating > results[1].rating
    /\ \E i \in 1..2 : output[i].id = results[2].id

---------------------------------------------------------------------------
(* Claims about the filters and parsePriceRange, checked under SpecFilter *)

\* the records of a list that lie within max metres
WithinDistance(list, max) == SelectSeq(list, LAMBDA r : r.distance <= max)

\* C18: filterByDistance returns exactly the records whose distance is at
\* most maxDistance, for every maxDistance from 0 up.
C18_KeepsExactlyWithinDistance ==
    fpc = "filtered" => filtered = WithinDistance(restaurants, maxDistance)

\* the same for a maxDistance above 0
C18_PositiveMaxDistance ==
    fpc = "filtered" /\ maxDistance > 0 =>
        filtered = WithinDistance(restaurants, maxDistance)

\* the bucket the thresholds give an amount in tenths of a yuan
ThresholdBucket(tenths) ==
    IF tenths < 300 THEN Price_Cheap
    ELSE IF tenths <= 1000 THEN Price_Medium
    ELSE Price_Expensive

\* C20: a numeric price below 30 is Cheap, from 30 to 100 with both ends is
\* Medium, above 100 is Expensive, by both implementations of parsePriceRange.
C20_PriceThresholds ==
    bucket.service # <<>> /\ price.has /\ price.numeric =>
        /\ bucket.service = ThresholdBucket(price.tenths)
        /\ bucket.lib = ThresholdBucket(price.tenths)

\* the boundary 30 has been parsed and gave Medium
C20_Witness ==
    /\ price = Cost(300)
    /\ bucket.service = Price_Medium
    /\ bucket.lib = Price_Medium

---------------------------------------------------------------------------
(* Claims about one request, checked under Spec *)

Issued(site) == \E i \in 1..Len(calls) : calls[i] = site

\* searchFood has returned to the handler
Finished == pc \in {"returned", "done"}

BaiduEligible == "baidu" \in platforms /\ baiduKey

AmapEligible == "amap" \in platforms /\ amapKey

RegionSites == {Site_RegionGeocode, Site_RegionSuggestion, Site_RegionCircle}

\* the calls of the coordinate path: LocationService's geocode calls and the
\* radius searches of searchNearbyFood
CoordinatePathSites ==
    {Site_ResolveBaidu, Site_ResolveAmap, Site_NearbyBaidu, Site_NearbyAmap}

\* the region attempt of the request has not completed yet
RegionAttemptRunning ==
    pc \in ({"dispatch", "dispatchPkg", "handler", "handlerPkg", "searchFood",
            "baiduRegion"} \cup RegionSites)

\* C3: in the mixed strategy, when the region attempt failed or found no
\* record and searchFood has returned, the coordinate path was run: the
\* location was resolved, every eligible provider's radius search was issued,
\* searchFood returned the aggregation of the radius searches, and the caller
\* was answered normally, never with an error.
C3_MixedFallbackRuns ==
    (strategy = "mixed" /\ Finished /\ regionResults = <<>>)
        => /\ coords.kind = "ok"
           /\ BaiduEligible => Issued(Site_NearbyBaidu)
           /\ AmapEligible => Issued(Site_NearbyAmap)
           /\ ret = deduplicateAndSort(got[Site_NearbyBaidu] \o got[Site_NearbyAmap])
           /\ response \in {"none", "notfound", "found"}

\* a region attempt whose provider call failed, followed by a radius search
\* that found places
C3_Witness ==
    /\ strategy = "mixed" /\ pc = "done"
    /\ out[Site_RegionSuggestion] = "fail" \/ out[Site_RegionCircle] = "fail"
    /\ Issued(Site_NearbyAmap)
    /\ response = "found"

BaiduRegionFailed ==
    /\ regionResults = <<>>
    /\ out[Site_RegionSuggestion] = "fail" \/ out[Site_RegionCircle] = "fail"

\* C5: in a fan-out a failed provider call contributes no record; when the
\* Baidu call failed the Amap call is still issued if Amap is eligible, and
\* searchFood returns the aggregation of the other provider's records, for
\* the radius fan-out and for the region fan-out, whichever provider failed.
C5_FailureIsolated ==
    /\ \A s \in Sites : out[s] = "fail" => got[s] = <<>>
    /\ (Finished /\ out[Site_NearbyBaidu] = "fail" /\ AmapEligible)
          => /\ Issued(Site_NearbyAmap)
             /\ ret = deduplicateAndSort(got[Site_NearbyAmap])
    /\ (Finished /\ out[Site_NearbyAmap] = "fail")
          => ret = deduplicateAndSort(got[Site_NearbyBaidu])
    /\ (Finished /\ strategy = "region" /\ BaiduRegionFailed /\ AmapEligible)
          => /\ Issued(Site_Text)
             /\ ret = deduplicateAndSort(got[Site_Text])
    /\ (Finished /\ strategy = "region" /\ out[Site_Text] = "fail")
          => ret = deduplicateAndSort(regionResults)

\* a radius fan-out in which Amap failed and Baidu's places were returned
C5_Witness ==
    /\ pc = "done"
    /\ out[Site_NearbyAmap] = "fail" /\ out[Site_NearbyBaidu] = "ok"
    /\ Len(ret) > 0
    /\ ret = deduplicateAndSort(got[Site_NearbyBaidu])

\* no call that returns places was answered successfully
NoProviderSucceeded ==
    \A s \in {Site_RegionCircle, Site_Text, Site_NearbyBaidu, Site_NearbyAmap} :
        out[s] \notin {"ok", "empty"}

\* C6: when every provider eligible for the strategy failed or is
\* unconfigured, the request is answered with an error, not with the answer
\* of a search that found nothing.
C6_AllFailedIsAnError ==
    (pc = "done" /\ strategy # "none" /\ NoProviderSucceeded)
        => response \in ErrorResponses

\* C7: when the Baidu geocode of a free-text location failed and Amap is
\* configured, the resolver has called the Amap geocode before it returns.
C7_GeocodeFallsBackToAmap ==
    (out[Site_ResolveBaidu] = "fail" /\ amapKey /\ coords # NoCoordinates)
        => Issued(Site_ResolveAmap)

\* C8: when no geocode call of a free-text location succeeded, the resolver
\* ends in an error and returns no coordinates.
C8_FailedGeocodeIsAnError ==
    (/\ coords # NoCoordinates
     /\ ~isCoordinateFormat(location) /\ ~IsCurrentLocation(location)
     /\ out[Site_ResolveBaidu] # "ok" /\ out[Site_ResolveAmap] # "ok")
        => coords.kind = "error"

\* C9: when the location is the current-location sentinel, the resolver has
\* called the IP-locate endpoint before it returns.
C9_SentinelUsesIpLocate ==
    (IsCurrentLocation(location) /\ coords # NoCoordinates) => Issued(Site_IpLocate)

\* C10: every request is eventually answered, even when a provider never
\* answers.
C10_SearchEventuallyReturns == <>(pc = "done")

---------------------------------------------------------------------------
(* Claims about classification and parsing, checked under SpecClassify *)

\* the classification with the coordinate checks first
CoordinateChecksFirst(loc) ==
    IF isCoordinateFormat(loc) \/ IsCurrentLocation(loc) THEN "coordinate"
    ELSE IF isRegionSearch(loc) THEN "region"
    ELSE "mixed"

\* C11: for every string the strategy returned is coordinate when the string
\* matches the coordinate-pair pattern or is a current-location sentinel,
\* region when neither holds and a region keyword is contained, and mixed
\* otherwise; exactly one of the three is returned.
C11_CoordinateChecksWin ==
    strategy # "none"
        => /\ strategy = CoordinateChecksFirst(location)
           /\ strategy \in {"coordinate", "region", "mixed"}

\* a coordinate pair with a space after the comma, classified
C11_Witness ==
    /\ strategy # "none"
    /\ isCoordinateFormat(location)
    /\ \E i \in 1..Len(location) : location[i] = " "
    /\ strategy = "coordinate"

\* the value, in 1e-4, of the number -?\d+\.?\d* written in s[i..j-1]
NumberValue(s, i, j) ==
    LET neg == s[i] = "-"
        d1 == IF neg THEN i + 1 ELSE i
        dots == {k \in d1..(j - 1) : s[k] = "."}
        dot == IF dots = {} THEN j ELSE CHOOSE k \in dots : TRUE
        mag == 10000 * DigitsValue(s, d1, dot, 0) + FractionValue(s, dot + 1, j, 1000)
    IN  IF neg THEN -mag ELSE mag

\* the two numbers of a string that matches the coordinate pattern
FirstNumber(loc) == NumberValue(loc, 1, MatchNumber(loc, 1))

SecondNumber(loc) ==
    NumberValue(loc, SkipWhile(loc, MatchNumber(loc, 1) + 1, {" "}), Len(loc) + 1)

\* a component of the split string in which no number can be read: after
\* leading blanks and an optional sign comes neither a digit nor a point
\* followed by a digit
Unparsable(comp) ==
    LET b == SkipOptional(comp, SkipWhile(comp, 1, {" "}), "-")
    IN  ~ \/ b <= Len(comp) /\ comp[b] \in Digits
          \/ b + 1 <= Len(comp) /\ comp[b] = "." /\ comp[b + 1] \in Digits

\* C13: when the location matches the coordinate pattern, getCoordinates
\* returns its first number as lat and its second as lng and no provider was
\* called; and for every string, a component of parseCoordinate that is
\* missing or unparsable is 0.
C13_CoordinatePairParsedDirectly ==
    /\ (pc = "nearby" /\ isCoordinateFormat(location))
          => /\ coords.kind = "ok"
             /\ coords.lat = FirstNumber(location)
             /\ coords.lng = SecondNumber(location)
             /\ calls = <<>>
    /\ Unparsable(SplitPart(location, 1)) => parseCoordinate(location).lat = 0
    /\ Unparsable(SplitPart(location, 2)) => parseCoordinate(location).lng = 0

\* "39.9,116" resolved to (39.9, 116) while a geocoding key is configured
C13_Witness ==
    /\ pc = "nearby"
    /\ isCoordinateFormat(location)
    /\ baiduKey
    /\ coords.lat = 399000 /\ coords.lng = 1160000
    /\ calls = <<>>

---------------------------------------------------------------------------
(* Claims about the list searchFood returns, checked under Spec *)

\* a comes before b in the order rating descending, distance ascending
InOrder(a, b) ==
    \/ a.rating > b.rating
    \/ a.rating = b.rating /\ a.distance <= b.distance

\* C12: the list searchFood returns is ordered by rating descending and,
\* among equal ratings, by distance ascending (a missing distance is 0):
\* every two adjacent records are in that order.
C12_SortedByRatingThenDistance ==
    Finished => \A k \in 1..(Len(ret) - 1) : InOrder(ret[k], ret[k + 1])

\* a returned list in which two records of equal rating were ordered by
\* their distances, and one with a higher rating precedes them
C12_Witness ==
    /\ pc = "done"
    /\ \E k \in 1..(Len(ret) - 1) :
          ret[k].rating = ret[k + 1].rating /\ ret[k].distance < ret[k + 1].distance
    /\ \E k \in 1..(Len(ret) - 1) : ret[k].rating > ret[k + 1].rating

\* C14: a search_map_poi request made while no API key is set is answered
\* with the configuration error.
C14_NoKeyIsAConfigurationError ==
    (/\ pc = "done" /\ ~baiduKey /\ ~amapKey
     /\ response \notin {"error.unknownTool", "error.arguments"})
        => response = "config"

\* C15: every tool call that ends is answered with a text, whatever the tool
\* name, the arguments and the providers' answers; and searchFood never
\* throws: the only error texts come from an unknown tool name or absent
\* arguments, never from an error escaping the search.
C15_EveryCallAnswered ==
    /\ pc = "done"
          => response \in {"found", "notfound", "config", "noplatform",
                           "error.unknownTool", "error.arguments"}
    /\ response # "error.search"
    /\ (pc = "returned" /\ location = Str_Missing) => ret = <<>>

\* a request without a location string, answered with the not-found text
C15_Witness ==
    /\ pc = "done"
    /\ location = Str_Missing
    /\ response = "notfound"

\* the four price buckets
PriceBuckets == {Price_Cheap, Price_Medium, Price_Expensive, Price_Unknown}

\* C17: every record of every list searchFood returns has a price_range that
\* is one of the four buckets, so some bucket's filter keeps a record of a
\* non-empty list.
C17_PriceIsABucket ==
    Finished =>
        \A k \in 1..Len(ret) :
            /\ ret[k].price_range \in PriceBuckets
            /\ \E b \in PriceBuckets : filterByPriceRange(ret, b) # <<>>

\* the records the radius searches of searchNearbyFood contributed
RadiusRecords(site) == { got[site][k] : k \in 1..Len(got[site]) }

\* C21: every record of a radius search carries the distance the engine
\* computes from the search centre and the record's location, whatever the
\* provider reported.
C21_DistanceIsComputed ==
    \A site \in {Site_NearbyBaidu, Site_NearbyAmap} :
        \A r \in RadiusRecords(site) : r.distance = RoundedDistance(r.location)

\* Claims about calculateDistance, checked under SpecDistance

Min2(a, b) == IF a < b THEN a ELSE b

Max2(a, b) == IF a < b THEN b ELSE a

\* C22: up to and including a planar estimate of 1000 m the result is the
\* planar estimate; above it the result is the arithmetic mean of the planar
\* and the haversine estimate, which lies between the two.
C22_BlendAboveThresholdOnly ==
    blended # -1 =>
        /\ estimates.planar <= 2000 => blended = estimates.planar
        /\ estimates.planar > 2000 =>
              /\ 2 * blended = estimates.planar + estimates.haversine
              /\ Min2(estimates.planar, estimates.haversine) <= blended
              /\ blended <= Max2(estimates.planar, estimates.haversine)

\* exactly 1000 m by the planar estimate, a different haversine estimate
C22_Witness ==
    /\ estimates.planar = 2000
    /\ estimates.haversine # 2000
    /\ blended = 2000

\* an averaged result above the threshold
C22_WitnessBlended ==
    /\ estimates.planar = 2004
    /\ estimates.haversine = 2000
    /\ blended = 2002

\* Claims about chains of filters, checked under SpecChain

\* the filter calls made so far are one call of each of the three filters
EachFilterOnce ==
    /\ Len(applied) = 3
    /\ \A f \in {"cuisine", "price", "distance"} :
           \E i \in 1..3 : applied[i] = f

\* cuisine, then price, then distance, on the list the chain started from
InHandlerOrder ==
    filterByDistance(
        filterByPriceRange(
            filterByCuisineType(restaurants, criteria.cuisine_type),
            criteria.price_range),
        criteria.max_distance)

\* C23: the three filters applied once each, in whichever order, give the
\* list that cuisine, then price, then distance gives.
C23_FilterOrderIndependent ==
    EachFilterOnce => filtered = InHandlerOrder

\* distance, price, cuisine with all three arguments given, on a list of
\* which the chain keeps a part
C23_Witness ==
    /\ applied = <<"distance", "price", "cuisine">>
    /\ criteria.cuisine_type # <<>> /\ criteria.price_range # <<>>
    /\ criteria.max_distance # 0
    /\ Len(restaurants) = 2 /\ Len(filtered) = 1

\* a record is kept iff its cuisine_type is c or one of its tags contains c
KeptByCuisine(r, c) ==
    \/ r.cuisine_type = c
    \/ \E i \in 1..Len(r.tags) : Includes(r.tags[i], c)

\* C24: the cuisine filter applied twice with the same cuisine gives what it
\* gives applied once, the records whose cuisine_type is the cuisine or one of
\* whose tags contains it.
C24_CuisineFilterIdempotent ==
    /\ applied = <<"cuisine">> /\ criteria.cuisine_type # <<>> =>
           filtered = SelectSeq(restaurants,
                                LAMBDA r : KeptByCuisine(r, criteria.cuisine_type))
    /\ applied = <<"cuisine", "cuisine">> =>
           filtered = filterByCuisineType(restaurants, criteria.cuisine_type)

\* the cuisine filter ran twice and kept a record by its tag, dropped another
C24_Witness ==
    /\ applied = <<"cuisine", "cuisine">>
    /\ criteria.cuisine_type = Cuisine_Sichuan
    /\ Len(restaurants) = 2 /\ Len(filtered) = 1
    /\ filtered[1].cuisine_type # Cuisine_Sichuan

\* s is t with some elements left out
RECURSIVE IsSubSeq(_, _)
IsSubSeq(s, t) ==
    IF s = <<>> THEN TRUE
    ELSE IF t = <<>> THEN FALSE
    ELSE IF Head(s) = Head(t) THEN IsSubSeq(Tail(s), Tail(t))
    ELSE IsSubSeq(s, Tail(t))

\* rating descending, then distance ascending
Sorted(s) == \A i \in 1..(Len(s) - 1) : InOrder(s[i], s[i + 1])

\* the argument of a filter of the chain is the absent one
AbsentCriterion(f) ==
    \/ f = "cuisine" /\ criteria.cuisine_type = <<>>
    \/ f = "price" /\ criteria.price_range = <<>>
    \/ f = "distance" /\ criteria.max_distance = 0

\* C30: after any sequence of filter calls the list is a sub-list of the one
\* the chain started from, in the same relative order, so a sorted list stays
\* sorted; and filters called with absent arguments only return the list
\* unchanged.
C30_FiltersKeepOrder ==
    fpc \in {"filtering", "handled"} =>
        /\ IsSubSeq(filtered, restaurants)
        /\ Sorted(restaurants) => Sorted(filtered)
        /\ (\A i \in 1..Len(applied) : AbsentCriterion(applied[i])) =>
               filtered = restaurants
        /\ filterByCuisineType(filtered, <<>>) = filtered
        /\ filterByPriceRange(filtered, <<>>) = filtered

\* a sorted two-record list went through the handler's two filters and one
\* record is left; and a call with an absent argument has happened
C30_Witness ==
    /\ fpc = "handled" /\ applied = <<"cuisine", "price">>
    /\ Len(restaurants) = 2 /\ Sorted(restaurants)
    /\ restaurants[1].rating > restaurants[2].rating
    /\ Len(filtered) = 1

\* the cuisine filter was called with the absent argument on a list that
\* holds a record without tags
C30_WitnessAbsent ==
    /\ applied = <<"cuisine">> /\ criteria.cuisine_type = <<>>
    /\ \E k \in 1..Len(restaurants) : restaurants[k].tags = <<>>
    /\ filtered = restaurants

\* Claims about the Mixed and Region branches of searchFood, checked under Spec

\* searchFood returned the non-empty region attempt of the Mixed strategy
MixedReturnedRegionAttempt ==
    strategy = "mixed" /\ Finished /\ Len(regionResults) > 0

\* C25: when the region attempt of the Mixed strategy is non-empty, Mixed
\* returns what the Region branch returns: Baidu is asked only when it is one
\* of the platforms, the Amap text search is made when Amap is eligible, and
\* the records are deduplicated and sorted.
C25_MixedAttemptIsRegionPath ==
    MixedReturnedRegionAttempt =>
        /\ "baidu" \in platforms
        /\ AmapEligible => Issued(Site_Text)
        /\ ret = deduplicateAndSort(regionResults \o got[Site_Text])

\* the parts of C25 one by one
C25_BaiduOnlyWhenRequested ==
    MixedReturnedRegionAttempt => "baidu" \in platforms

C25_AmapTextIssued ==
    MixedReturnedRegionAttempt /\ AmapEligible => Issued(Site_Text)

C25_Deduplicated ==
    MixedReturnedRegionAttempt => ret = deduplicateAndSort(regionResults)

===========================================================================
